---- MODULE Spec2Model ----
(***************************************************************************)
(* The scheduling core of OR-tools-scheduling: block expansion             *)
(* (main.py, prepare_assignments_as_blocks) and SchoolScheduler.solve      *)
(* (scheduler_engine.py): domain generation, pre-diagnosis, the CP model   *)
(* and the extraction of the timetable.                                    *)
(*                                                                         *)
(* A slot id "Mon_2" is modelled as the pair <<"Mon", 2>>; the id of a     *)
(* block "{assignment_id}_p{k}" as the pair <<assignment_id, k>>.          *)
(***************************************************************************)
EXTENDS Integers, Sequences, FiniteSets, TLC

\* ---- bounds of the model ----
MaxPeriods == 2
MaxSks == 2
MaxBlockDuration == 2
MaxAssignments == 2

\* ---- defaults of the code ----
DefaultDays == <<"Mon", "Tue", "Wed", "Thu", "Fri">>
DefaultPeriods == 8
DefaultMaxBlock == 3

\* ---- the universe the snapshots are drawn from ----
Days == <<"Mon">>
RoomIds == {"R1", "R2"}
TeacherRecords == {"T1"}
SubjectRecords == {"S1"}
\* ids an assignment may carry: "T9" and "S9" have no record
TeacherRefs == {"T1", "T9"}
SubjectRefs == {"S1", "S9"}
YearIds == {"Y1", "Y2"}
None == "None"
NoSlot == <<"None", 0>>

DayNames == {Days[i] : i \in 1..Len(Days)}
\* slot ids found in unavailable_slots and fixed_slot; with periods_per_day
\* below MaxPeriods some lie outside the grid, as does <<"Sat", 1>>
StoredSlots == DayNames \X (1..MaxPeriods)
PinChoices == {NoSlot} \cup StoredSlots \cup {<<"Sat", 1>>}

VARIABLES
    config,            \* [days, periods_per_day, max_block_duration], each optional
    rooms,             \* room id -> [unavailable_slots]
    teachers,          \* teacher id -> [name, unavailable_slots]
    subjects,          \* subject id -> [name, unavailable_slots, fixed_slot]
    assigned_classes,  \* sequence of [id, teacher_id, subject_id, year_id, sks]
    blocks,            \* data["blocks"], sequence of block records
    x,                 \* the decision variables: set of <<block_id, room_id, slot_id>>
    solver_calls,      \* number of calls of solver.Solve
    pc,                \* "idle", "fetched", "prepared", "modelled", "returned", "raised"
    result,            \* the value solve returns
    generated_schedule \* the collection: [stale, current]; stale counts the
                       \* documents of earlier schedules, current holds the
                       \* documents of the last save

vars == <<config, rooms, teachers, subjects, assigned_classes, blocks, x,
          solver_calls, pc, result, generated_schedule>>

snapshot == <<config, rooms, teachers, subjects, assigned_classes>>

database == <<snapshot, generated_schedule>>

EmptySchedule == [stale |-> 0, current |-> {}]

\* dict.get(key, default)
get(d, key, default) == IF key \in DOMAIN d THEN d[key] ELSE default

\* ---- SchoolScheduler.__init__ ----
days == get(config, "days", DefaultDays)

periods == get(config, "periods_per_day", DefaultPeriods)

slots == {<<days[i], p>> : i \in 1..Len(days), p \in 1..periods}

\* ---- prepare_assignments_as_blocks ----
max_block_duration == get(config, "max_block_duration", DefaultMaxBlock)

new_block(assign, part_counter, duration) ==
    [block_id     |-> <<assign.id, part_counter>>,
     teacher_id   |-> assign.teacher_id,
     subject_id   |-> assign.subject_id,
     year_id      |-> assign.year_id,
     subject_name |-> IF assign.subject_id \in DOMAIN subjects
                      THEN subjects[assign.subject_id].name
                      ELSE "Unknown Subject",
     duration     |-> duration]

\* mutant: the remainder branch of lines 51-54 is lost
RECURSIVE expand_NoRemainder(_, _, _, _)
expand_NoRemainder(assign, remaining_sks, part_counter, max_block) ==
    IF remaining_sks > 0
    THEN <<new_block(assign, part_counter, max_block)>>
         \o expand_NoRemainder(assign, remaining_sks - max_block,
                               part_counter + 1, max_block)
    ELSE <<>>

\* the while loop of lines 47-68 for one assignment
RECURSIVE expand(_, _, _, _)
expand(assign, remaining_sks, part_counter, max_block) ==
    IF remaining_sks > 0
    THEN LET duration == IF remaining_sks >= max_block THEN max_block
                         ELSE remaining_sks
         IN  <<new_block(assign, part_counter, duration)>>
             \o expand(assign, remaining_sks - duration, part_counter + 1,
                       max_block)
    ELSE <<>>

\* mutant: part_counter starts at 0 instead of 1 (line 45)
RECURSIVE prepare_from_ZeroBased(_, _, _)
prepare_from_ZeroBased(assignments, i, max_block) ==
    IF i > Len(assignments) THEN <<>>
    ELSE expand(assignments[i], assignments[i].sks, 0, max_block)
         \o prepare_from_ZeroBased(assignments, i + 1, max_block)

RECURSIVE prepare_from(_, _, _)
prepare_from(assignments, i, max_block) ==
    IF i > Len(assignments) THEN <<>>
    ELSE expand(assignments[i], assignments[i].sks, 1, max_block)
         \o prepare_from(assignments, i + 1, max_block)

prepare_assignments_as_blocks(assignments, max_block) ==
    prepare_from(assignments, 1, max_block)

\* ---- SchoolScheduler.solve: valid start slots (lines 30-48) ----
fixed_slot_of(b, subjs) ==
    IF b.subject_id \in DOMAIN subjs THEN subjs[b.subject_id].fixed_slot
    ELSE NoSlot

\* mutant: the fixed_slot branch of lines 40-41 is lost
valid_starts_NoPin(b, subjs) ==
    {s \in slots : s[2] + b.duration - 1 <= periods}

valid_starts(b, subjs) ==
    IF fixed_slot_of(b, subjs) # NoSlot
    THEN {fixed_slot_of(b, subjs)}
    ELSE {s \in slots : s[2] + b.duration - 1 <= periods}

\* ---- SchoolScheduler.solve: availability of one (room, start) (lines 68-98) ----
occupied_slots(start_slot, duration) ==
    {<<start_slot[1], start_slot[2] + k>> : k \in 0..(duration - 1)}

\* mutant: the teacher check of lines 82-87 is lost
is_available_NoTeacher(b, start_slot, tchs, subjs) ==
    \/ b.subject_id \notin DOMAIN subjs
    \/ subjs[b.subject_id].fixed_slot # NoSlot
    \/ occupied_slots(start_slot, b.duration)
           \cap subjs[b.subject_id].unavailable_slots = {}

\* mutant: the subject check of lines 89-94 no longer looks at fixed_slot
is_available_SubjectAlways(b, start_slot, tchs, subjs) ==
    /\ \/ b.teacher_id \notin DOMAIN tchs
       \/ occupied_slots(start_slot, b.duration)
              \cap tchs[b.teacher_id].unavailable_slots = {}
    /\ \/ b.subject_id \notin DOMAIN subjs
       \/ occupied_slots(start_slot, b.duration)
              \cap subjs[b.subject_id].unavailable_slots = {}

is_available(b, start_slot, tchs, subjs) ==
    /\ \/ b.teacher_id \notin DOMAIN tchs
       \/ occupied_slots(start_slot, b.duration)
              \cap tchs[b.teacher_id].unavailable_slots = {}
    /\ \/ b.subject_id \notin DOMAIN subjs
       \/ subjs[b.subject_id].fixed_slot # NoSlot
       \/ occupied_slots(start_slot, b.duration)
              \cap subjs[b.subject_id].unavailable_slots = {}

\* the (room, start) pairs for which solve creates a decision variable
allowed_rooms(rms) == DOMAIN rms

\* mutant: a start slot is kept without looking it up in the grid (lines 71-75)
Domain_NoGridCheck(b, rms, tchs, subjs) ==
    {rs \in allowed_rooms(rms) \X valid_starts(b, subjs) :
        is_available(b, rs[2], tchs, subjs)}

\* mutant: a room is skipped at the slots of its own unavailable_slots
Domain_RoomCheck(b, rms, tchs, subjs) ==
    {rs \in allowed_rooms(rms) \X (valid_starts(b, subjs) \cap slots) :
        /\ is_available(b, rs[2], tchs, subjs)
        /\ occupied_slots(rs[2], b.duration) \cap rms[rs[1]].unavailable_slots = {}}

Domain(b, rms, tchs, subjs) ==
    {rs \in allowed_rooms(rms) \X (valid_starts(b, subjs) \cap slots) :
        is_available(b, rs[2], tchs, subjs)}

vars_of(b) ==
    {<<b.block_id, rs[1], rs[2]>> : rs \in Domain(b, rooms, teachers, subjects)}

BlockIndex == 1..Len(blocks)

\* first block at which the loop of lines 53-114 returns, 0 when it runs through
FirstStop ==
    LET bad == {i \in BlockIndex :
                   allowed_rooms(rooms) = {} \/ Domain(blocks[i], rooms, teachers, subjects) = {}}
    IN  IF bad = {} THEN 0 ELSE CHOOSE i \in bad : \A j \in bad : i <= j

\* ---- SchoolScheduler.solve: the critical error catcher (lines 100-114) ----
error_msg(b) ==
    IF fixed_slot_of(b, subjects) # NoSlot
    THEN [kind |-> "FORCED", subject_name |-> b.subject_name,
          duration |-> b.duration,
          fixed_slot |-> fixed_slot_of(b, subjects), teacher_name |-> None]
    ELSE [kind |-> "BLOCKED", subject_name |-> b.subject_name,
          duration |-> b.duration,
          fixed_slot |-> NoSlot, teacher_name |-> teachers[b.teacher_id].name]

\* teacher_obj.get('name') on a teacher_obj that is None (line 112)
raises_at(b) ==
    fixed_slot_of(b, subjects) = NoSlot /\ b.teacher_id \notin DOMAIN teachers

NoRoomsError == [kind |-> "NO_ROOMS", subject_name |-> None, duration |-> 0,
                 fixed_slot |-> NoSlot, teacher_name |-> None]
ConflictError == [kind |-> "CONFLICT", subject_name |-> None, duration |-> 0,
                  fixed_slot |-> NoSlot, teacher_name |-> None]
NoError == [kind |-> None, subject_name |-> None, duration |-> 0,
            fixed_slot |-> NoSlot, teacher_name |-> None]

\* ---- SchoolScheduler.solve: the constraints (lines 116-151) ----
\* val is the set of decision variables the solver sets to 1
block_of(b_id) == CHOOSE b \in {blocks[i] : i \in BlockIndex} : b.block_id = b_id

covers(v, occ) == occ \in occupied_slots(v[3], block_of(v[1]).duration)

\* mutant: the sum of line 120 is bounded instead of fixed
exactly_one_AtMost(val, b_id) == Cardinality({v \in val : v[1] = b_id}) <= 1

exactly_one(val, b_id) == Cardinality({v \in val : v[1] = b_id}) = 1

room_usage(val, r_id, occ) == {v \in val : v[2] = r_id /\ covers(v, occ)}

teacher_usage(val, t_id, occ) ==
    {v \in val : block_of(v[1]).teacher_id = t_id /\ covers(v, occ)}

year_usage(val, y_id, occ) ==
    {v \in val : block_of(v[1]).year_id = y_id /\ covers(v, occ)}

\* mutant: the cohort constraint of lines 146-151 is not posted
overlap_constraints_NoYear(val) ==
    /\ \A r_id \in DOMAIN rooms : \A s_id \in slots :
           Cardinality(room_usage(val, r_id, s_id)) <= 1
    /\ \A t_id \in DOMAIN teachers : \A s_id \in slots :
           Cardinality(teacher_usage(val, t_id, s_id)) <= 1

overlap_constraints(val) ==
    /\ \A r_id \in DOMAIN rooms : \A s_id \in slots :
           Cardinality(room_usage(val, r_id, s_id)) <= 1
    /\ \A t_id \in DOMAIN teachers : \A s_id \in slots :
           Cardinality(teacher_usage(val, t_id, s_id)) <= 1
    /\ \A y_id \in {block_of(v[1]).year_id : v \in x} : \A s_id \in slots :
           Cardinality(year_usage(val, y_id, s_id)) <= 1

\* ---- solver.Solve (line 159): the valuations that satisfy the model ----
\* built block by block; a partial valuation that breaks an at-most-one
\* constraint is dropped, because no extension of it can repair the sum.
\* Of a block's variables none, one or two are set: a third one changes
\* nothing of what the sum of line 120 accepts.
at_most_two(S) == {{}} \cup {{v, w} : v \in S, w \in S}

RECURSIVE feasible(_)
feasible(i) ==
    IF i = 0 THEN {{}}
    ELSE LET b_id == blocks[i].block_id
             mine == {v \in x : v[1] = b_id}
             cand == UNION {{p \cup c : c \in at_most_two(mine)} : p \in feasible(i - 1)}
         IN  {val \in cand : exactly_one(val, b_id) /\ overlap_constraints(val)}

Solutions == feasible(Len(blocks))

\* ---- extraction (lines 161-174) ----
extract(val) ==
    {[slot_id      |-> v[3],
      duration     |-> block_of(v[1]).duration,
      subject_name |-> block_of(v[1]).subject_name,
      teacher_id   |-> block_of(v[1]).teacher_id,
      room_id      |-> v[2],
      block_id     |-> v[1]] : v \in val}

\* ---- the snapshots fetch_all_data can hand to the core ----
\* the cohorts are interchangeable: the first assignment is for "Y1"
AssignmentSeqs ==
    {f \in UNION {[1..n -> [teacher_id : TeacherRefs, subject_id : SubjectRefs,
                            year_id : YearIds, sks : 1..MaxSks]] :
                     n \in 0..MaxAssignments} :
        f = <<>> \/ f[1].year_id = "Y1"}

with_ids(f) == [i \in DOMAIN f |->
                  [id |-> i, teacher_id |-> f[i].teacher_id,
                   subject_id |-> f[i].subject_id, year_id |-> f[i].year_id,
                   sks |-> f[i].sks]]

room_records(ids) == [r \in ids |-> [unavailable_slots |-> {}]]

Init ==
    /\ config \in [days : {Days}, periods_per_day : 1..MaxPeriods,
                   max_block_duration : 1..MaxBlockDuration]
    /\ rooms \in {room_records(ids) : ids \in {{}, {"R1"}, {"R1", "R2"}}}
    /\ teachers \in [TeacherRecords ->
                        [name : {"Alan"}, unavailable_slots : SUBSET StoredSlots]]
    /\ subjects \in [SubjectRecords ->
                        [name : {"Math"}, unavailable_slots : SUBSET StoredSlots,
                         fixed_slot : PinChoices]]
    /\ assigned_classes \in {with_ids(f) : f \in AssignmentSeqs}
    /\ blocks = <<>>
    /\ x = {}
    /\ solver_calls = 0
    /\ pc = "fetched"
    /\ result = [status |-> None, error |-> NoError, data |-> {}]
    /\ generated_schedule = EmptySchedule

\* generate_schedule / adjust_schedule: data["blocks"] = prepare_assignments_as_blocks(...)
Prepare ==
    /\ pc = "fetched"
    /\ blocks' = prepare_assignments_as_blocks(assigned_classes,
                                               max_block_duration)
    /\ pc' = "prepared"
    /\ UNCHANGED <<database, x, solver_calls, result>>

\* solve, lines 30-114: the loop over the blocks runs through
BuildModel ==
    /\ pc = "prepared"
    /\ FirstStop = 0
    /\ x' = UNION {vars_of(blocks[i]) : i \in BlockIndex}
    /\ pc' = "modelled"
    /\ UNCHANGED <<database, blocks, solver_calls, result>>

\* mutant: the room check of lines 59-61 is lost and the error catcher answers
FailNoRooms_AsDiagnosed ==
    /\ pc = "prepared"
    /\ FirstStop # 0
    /\ allowed_rooms(rooms) = {}
    /\ x' = {}
    /\ pc' = "returned"
    /\ result' = [status |-> "failure",
                  error |-> [error_msg(blocks[FirstStop]) EXCEPT !.kind = "BLOCKED"],
                  data |-> {}]
    /\ UNCHANGED <<database, blocks, solver_calls>>

\* solve, lines 59-61: no room
FailNoRooms ==
    /\ pc = "prepared"
    /\ FirstStop # 0
    /\ allowed_rooms(rooms) = {}
    /\ x' = {}
    /\ pc' = "returned"
    /\ result' = [status |-> "failure", error |-> NoRoomsError, data |-> {}]
    /\ UNCHANGED <<database, blocks, solver_calls>>

\* solve, lines 100-114: a block without any decision variable
FailDiagnosed ==
    /\ pc = "prepared"
    /\ FirstStop # 0
    /\ allowed_rooms(rooms) # {}
    /\ x' = UNION {vars_of(blocks[i]) : i \in 1..(FirstStop - 1)}
    /\ IF raises_at(blocks[FirstStop])
       THEN /\ pc' = "raised"
            /\ result' = [status |-> "AttributeError", error |-> NoError,
                          data |-> {}]
       ELSE /\ pc' = "returned"
            /\ result' = [status |-> "failure",
                          error |-> error_msg(blocks[FirstStop]), data |-> {}]
    /\ UNCHANGED <<database, blocks, solver_calls>>

\* solve, lines 116-174: the solver finds a valuation
SolveFeasible ==
    /\ pc = "modelled"
    /\ \E val \in Solutions :
           result' = [status |-> "success", error |-> NoError,
                      data |-> extract(val)]
    /\ solver_calls' = solver_calls + 1
    /\ pc' = "returned"
    /\ UNCHANGED <<database, blocks, x>>

\* solve, lines 116-159 and 176: the model has no valuation
SolveInfeasible ==
    /\ pc = "modelled"
    /\ Solutions = {}
    /\ result' = [status |-> "failure", error |-> ConflictError, data |-> {}]
    /\ solver_calls' = solver_calls + 1
    /\ pc' = "returned"
    /\ UNCHANGED <<database, blocks, x>>

Next ==
    \/ Prepare
    \/ BuildModel
    \/ FailNoRooms
    \/ FailDiagnosed
    \/ SolveFeasible
    \/ SolveInfeasible

Spec == Init /\ [][Next]_vars

\* ---- block expansion alone, over a wider range of workloads ----
MaxWorkload == 6
MaxCap == 4

InitExpand ==
    /\ config \in [days : {Days}, periods_per_day : {MaxPeriods},
                   max_block_duration : 1..MaxCap]
    /\ rooms = room_records({"R1"})
    /\ teachers = [t \in TeacherRecords |->
                      [name |-> "Alan", unavailable_slots |-> {}]]
    /\ subjects = [s \in SubjectRecords |->
                      [name |-> "Math", unavailable_slots |-> {},
                       fixed_slot |-> NoSlot]]
    /\ assigned_classes \in
           {with_ids(f) : f \in UNION {[1..n -> [teacher_id : {"T1"},
                                                  subject_id : SubjectRefs,
                                                  year_id : {"Y1"},
                                                  sks : {-1, 0} \cup 1..MaxWorkload]] :
                                          n \in 1..2}}
    /\ blocks = <<>>
    /\ x = {}
    /\ solver_calls = 0
    /\ pc = "fetched"
    /\ result = [status |-> None, error |-> NoError, data |-> {}]
    /\ generated_schedule = EmptySchedule

NextExpand == Prepare

SpecExpand == InitExpand /\ [][NextExpand]_vars

\* ---- snapshots whose config lacks keys, on the defaults of the code ----
ConfigKeys == {"days", "periods_per_day", "max_block_duration"}

PartialConfigs ==
    {[k \in K |-> c[k]] :
        K \in SUBSET ConfigKeys,
        c \in [days : {Days}, periods_per_day : 1..MaxPeriods,
               max_block_duration : 1..MaxBlockDuration]}

InitConfig ==
    /\ config \in PartialConfigs
    /\ rooms \in {room_records(ids) : ids \in {{}, {"R1"}}}
    /\ teachers = [t \in TeacherRecords |->
                      [name |-> "Alan", unavailable_slots |-> {}]]
    /\ subjects \in [SubjectRecords ->
                        [name : {"Math"}, unavailable_slots : {{}},
                         fixed_slot : {NoSlot, <<"Sat", 1>>}]]
    /\ assigned_classes \in
           {with_ids(f) : f \in UNION {[1..n -> [teacher_id : {"T1"},
                                                  subject_id : {"S1"},
                                                  year_id : {"Y1"},
                                                  sks : 1..MaxSks]] :
                                          n \in 0..1}}
    /\ blocks = <<>>
    /\ x = {}
    /\ solver_calls = 0
    /\ pc = "fetched"
    /\ result = [status |-> None, error |-> NoError, data |-> {}]
    /\ generated_schedule = EmptySchedule

SpecConfig == InitConfig /\ [][Next]_vars

\* ---- snapshots whose rooms carry unavailable_slots ----
InitRooms ==
    /\ config = [days |-> Days, periods_per_day |-> MaxPeriods,
                 max_block_duration |-> MaxBlockDuration]
    /\ rooms \in UNION {[ids -> [unavailable_slots : SUBSET StoredSlots]] :
                            ids \in {{}, {"R1"}, {"R1", "R2"}}}
    /\ teachers \in [TeacherRecords ->
                        [name : {"Alan"},
                         unavailable_slots : {{}, {<<"Mon", 1>>}}]]
    /\ subjects = [s \in SubjectRecords |->
                      [name |-> "Math", unavailable_slots |-> {},
                       fixed_slot |-> NoSlot]]
    /\ assigned_classes \in
           {with_ids(f) : f \in UNION {[1..n -> [teacher_id : {"T1"},
                                                  subject_id : {"S1"},
                                                  year_id : YearIds,
                                                  sks : 1..MaxSks]] :
                                          n \in 1..MaxAssignments}}
    /\ blocks = <<>>
    /\ x = {}
    /\ solver_calls = 0
    /\ pc = "fetched"
    /\ result = [status |-> None, error |-> NoError, data |-> {}]
    /\ generated_schedule = EmptySchedule

SpecRooms == InitRooms /\ [][Next]_vars

\* ---- the service: /generate and /adjust requests, one after the other ----
DeleteLimit == 500
BareLabelLen == 3
ExpandPeriods == 8

\* len(s) of a day label
label_len(s) == IF s = "Monday" THEN 6 ELSE 3

\* AIAgent.expand_slots; a slot id "Mon_1" is <<"Mon", 1>>, a bare label
\* "Mon" is <<"Mon">>
expand_slots(slot_ids) ==
    UNION {IF Len(s) = 1 /\ label_len(s[1]) = BareLabelLen
           THEN {<<s[1], i>> : i \in 1..ExpandPeriods}
           ELSE {s} : s \in slot_ids}

\* update_constraint: the document exists
found(collection, doc_id) == doc_id # None /\ doc_id \in DOMAIN collection

\* update_constraint: the new value of the collection
update_constraint(collection, doc_id, slot_ids, mode) ==
    [collection EXCEPT ![doc_id].unavailable_slots =
        IF mode = "block" THEN @ \cup slot_ids ELSE @ \ slot_ids]

\* wipe_collection_constraints(collection, {"unavailable_slots": []})
wipe_collection_constraints(collection) ==
    [d \in DOMAIN collection |-> [collection[d] EXCEPT !.unavailable_slots = {}]]

ActionNames == {"clear_all_constraints", "block_teacher", "unblock_teacher",
                "block_room", "unblock_room", "block_subject",
                "unblock_subject", "force_subject", "other"}

mode_of(action) ==
    IF action \in {"block_teacher", "block_room", "block_subject"}
    THEN "block" ELSE "unblock"

\* what the command interpreter can hand to execute_action
SchedulerActions ==
    [action : ActionNames,
     teacher_id : {None} \cup TeacherRefs,
     room_id : {None, "R1", "R2"},
     subject_id : {None} \cup SubjectRefs,
     slot_ids : {{<<days[1]>>}, {<<days[1], 1>>}},
     target_slot_id : {<<days[1], 1>>}]

\* the document a command names, and whether execute_action answers an error
ai_error(a) ==
    CASE a.action \in {"block_teacher", "unblock_teacher"}
             -> ~found(teachers, a.teacher_id)
      [] a.action \in {"block_room", "unblock_room"}
             -> ~found(rooms, a.room_id)
      [] a.action \in {"block_subject", "unblock_subject", "force_subject"}
             -> ~found(subjects, a.subject_id)
      [] OTHER -> FALSE

\* AIAgent.execute_action: the writes to teachers, rooms and subjects
execute_action(a) ==
    CASE ai_error(a) ->
             UNCHANGED <<teachers, rooms, subjects>>
      [] a.action = "clear_all_constraints" ->
             /\ teachers' = wipe_collection_constraints(teachers)
             /\ rooms' = wipe_collection_constraints(rooms)
             /\ subjects' = [d \in DOMAIN subjects |->
                                [subjects[d] EXCEPT !.unavailable_slots = {},
                                                    !.fixed_slot = NoSlot]]
      [] a.action \in {"block_teacher", "unblock_teacher"} ->
             /\ teachers' = update_constraint(teachers, a.teacher_id,
                                              expand_slots(a.slot_ids),
                                              mode_of(a.action))
             /\ UNCHANGED <<rooms, subjects>>
      [] a.action \in {"block_room", "unblock_room"} ->
             /\ rooms' = update_constraint(rooms, a.room_id,
                                           expand_slots(a.slot_ids),
                                           mode_of(a.action))
             /\ UNCHANGED <<teachers, subjects>>
      [] a.action \in {"block_subject", "unblock_subject"} ->
             /\ subjects' = update_constraint(subjects, a.subject_id,
                                              expand_slots(a.slot_ids),
                                              mode_of(a.action))
             /\ UNCHANGED <<teachers, rooms>>
      [] a.action = "force_subject" ->
             /\ subjects' = [subjects EXCEPT
                                ![a.subject_id].fixed_slot = a.target_slot_id,
                                ![a.subject_id].unavailable_slots = {}]
             /\ UNCHANGED <<teachers, rooms>>
      [] OTHER -> UNCHANGED <<teachers, rooms, subjects>>

\* generate_schedule up to fetch_all_data and the test of line 78
Generate ==
    /\ pc = "idle"
    /\ pc' = IF assigned_classes = <<>> THEN "idle" ELSE "fetched"
    /\ UNCHANGED <<database, blocks, x, solver_calls, result>>

\* adjust_schedule up to fetch_all_data: the command is executed first
Adjust ==
    /\ pc = "idle"
    /\ \E a \in SchedulerActions :
           /\ execute_action(a)
           /\ pc' = IF ai_error(a) THEN "idle" ELSE "fetched"
    /\ UNCHANGED <<config, assigned_classes, generated_schedule, blocks, x,
                   solver_calls, result>>

\* save_schedule: at most DeleteLimit of the documents found are deleted,
\* then the new ones are written; the documents left over are stale
save_schedule(assignments) ==
    LET total == generated_schedule.stale
                     + Cardinality(generated_schedule.current)
        old_docs == IF total <= DeleteLimit THEN total ELSE DeleteLimit
    IN  generated_schedule' = [stale   |-> total - old_docs,
                               current |-> assignments]

\* lines 91-99 and 133-135: a success is saved and answered
Save ==
    /\ pc = "returned"
    /\ result.status = "success"
    /\ save_schedule(result.data)
    /\ pc' = "idle"
    /\ blocks' = <<>>
    /\ x' = {}
    /\ solver_calls' = 0
    /\ result' = [status |-> None, error |-> NoError, data |-> {}]
    /\ UNCHANGED snapshot

\* lines 100-112 and 136-140: a failure or an exception is answered
Answer ==
    /\ \/ pc = "returned" /\ result.status = "failure"
       \/ pc = "raised"
    /\ pc' = "idle"
    /\ blocks' = <<>>
    /\ x' = {}
    /\ solver_calls' = 0
    /\ result' = [status |-> None, error |-> NoError, data |-> {}]
    /\ UNCHANGED database

InitService ==
    /\ config \in [days : {<<"Mon">>, <<"Monday">>},
                    periods_per_day : 1..MaxPeriods,
                    max_block_duration : 1..MaxBlockDuration]
    /\ rooms \in {room_records(ids) : ids \in {{}, {"R1"}}}
    /\ teachers = [t \in TeacherRecords |->
                      [name |-> "Alan", unavailable_slots |-> {}]]
    /\ subjects = [s \in SubjectRecords |->
                      [name |-> "Math", unavailable_slots |-> {},
                       fixed_slot |-> NoSlot]]
    /\ assigned_classes \in
           {with_ids(f) : f \in UNION {[1..n -> [teacher_id : {"T1"},
                                                  subject_id : {"S1"},
                                                  year_id : {"Y1"},
                                                  sks : {MaxSks}]] :
                                          n \in 0..1}}
    /\ blocks = <<>>
    /\ x = {}
    /\ solver_calls = 0
    /\ pc = "idle"
    /\ result = [status |-> None, error |-> NoError, data |-> {}]
    /\ generated_schedule \in [stale : {0, DeleteLimit, DeleteLimit + 1},
                                current : {{}}]

NextService ==
    \/ Generate
    \/ Adjust
    \/ Prepare
    \/ BuildModel
    \/ FailNoRooms
    \/ FailDiagnosed
    \/ SolveFeasible
    \/ SolveInfeasible
    \/ Save
    \/ Answer

SpecService == InitService /\ [][NextService]_vars

\* ======================= the claims =======================
Succeeded == pc = "returned" /\ result.status = "success"

occ_of(p) == occupied_slots(p.slot_id, p.duration)

pinned(b) == fixed_slot_of(b, subjects) # NoSlot

\* C1: every placement of a successful result ends inside its day:
\* start.period + duration - 1 <= periods_per_day, pinned blocks included.
C1_WithinDay ==
    Succeeded => \A p \in result.data :
                    /\ p.slot_id[2] + p.duration - 1 <= periods
                    /\ occ_of(p) \subseteq slots

\* C2: in a successful result no two placements occupy a grid slot in the
\* same room, with the same teacher_id, or with the same cohort.
C2_MutualExclusion ==
    Succeeded =>
        \A t \in slots : \A p, q \in result.data :
            (p # q /\ t \in occ_of(p) /\ t \in occ_of(q)) =>
                /\ p.room_id # q.room_id
                /\ p.teacher_id # q.teacher_id
                /\ block_of(p.block_id).year_id # block_of(q.block_id).year_id

\* C3: a returned result is either a success with exactly one placement for
\* every block, or a failure with an error reason and no placement.
C3_NoPartialTimetable ==
    pc = "returned" =>
        \/ /\ result.status = "success"
           /\ Cardinality(result.data) = Len(blocks)
           /\ \A i \in BlockIndex :
                  Cardinality({p \in result.data :
                                  p.block_id = blocks[i].block_id}) = 1
        \/ /\ result.status = "failure"
           /\ result.error.kind # None
           /\ result.data = {}

C3_Witness ==
    /\ Succeeded
    /\ Len(blocks) >= 3
    /\ Cardinality({p.slot_id : p \in result.data}) >= 2

RECURSIVE SumDurations(_)
SumDurations(seq) ==
    IF seq = <<>> THEN 0 ELSE Head(seq).duration + SumDurations(Tail(seq))

blocks_of(assign) ==
    LET derived(b) == b.block_id[1] = assign.id
    IN  SelectSeq(blocks, derived)

\* C4: the blocks derived from an assignment of workload w >= 1 with
\* max_block >= 1 have durations that sum to w, each within 1..max_block.
C4_Coverage ==
    pc = "prepared" =>
        \A i \in DOMAIN assigned_classes :
          assigned_classes[i].sks >= 1 =>
            /\ SumDurations(blocks_of(assigned_classes[i])) = assigned_classes[i].sks
            /\ \A k \in DOMAIN blocks_of(assigned_classes[i]) :
                   blocks_of(assigned_classes[i])[k].duration
                       \in 1..max_block_duration

C4_Witness ==
    /\ pc = "prepared"
    /\ \E i \in DOMAIN assigned_classes :
           /\ assigned_classes[i].sks > 2 * max_block_duration
           /\ assigned_classes[i].sks % max_block_duration # 0
           /\ Len(blocks_of(assigned_classes[i])) >= 3

\* C5: in a successful result no placement occupies a slot its teacher is
\* unavailable at, for pinned and for unpinned subjects.
C5_TeacherUnavailability ==
    Succeeded =>
        \A p \in result.data :
            p.teacher_id \in DOMAIN teachers =>
                occ_of(p) \cap teachers[p.teacher_id].unavailable_slots = {}

C5_Witness ==
    /\ Succeeded
    /\ \E p \in result.data :
           /\ pinned(block_of(p.block_id))
           /\ p.teacher_id \in DOMAIN teachers
           /\ teachers[p.teacher_id].unavailable_slots \cap slots # {}

with_unavailable(s_id, U) ==
    [subjects EXCEPT ![s_id].unavailable_slots = U]

\* C6: a subject's unavailable_slots restrict placement exactly when the
\* subject has no fixed_slot: placements of an unpinned subject avoid them;
\* for a pinned subject the admissibility of (room, fixed_slot) is the same
\* whatever the subject's unavailable_slots are, and it is still rejected
\* when the teacher is unavailable at an occupied slot.
C6_SubjectUnavailability ==
    /\ Succeeded =>
           \A p \in result.data :
               LET b == block_of(p.block_id)
               IN  (b.subject_id \in DOMAIN subjects /\ ~pinned(b)) =>
                       occ_of(p) \cap subjects[b.subject_id].unavailable_slots = {}
    /\ \A i \in BlockIndex :
           LET b == blocks[i]
               f == fixed_slot_of(b, subjects)
           IN  pinned(b) =>
                   /\ \A U \in SUBSET StoredSlots :
                          Domain(b, rooms, teachers, with_unavailable(b.subject_id, U))
                              = Domain(b, rooms, teachers, subjects)
                   /\ (/\ b.teacher_id \in DOMAIN teachers
                       /\ occupied_slots(f, b.duration)
                              \cap teachers[b.teacher_id].unavailable_slots # {})
                          => Domain(b, rooms, teachers, subjects) = {}

C6_Witness ==
    /\ Succeeded
    /\ \E p \in result.data :
           LET b == block_of(p.block_id)
           IN  /\ pinned(b)
               /\ occ_of(p) \cap subjects[b.subject_id].unavailable_slots # {}
    /\ \E p \in result.data : ~pinned(block_of(p.block_id))

\* C7: in a successful result every placement of a block whose subject has
\* fixed_slot = f starts at f.
C7_PinHonoured ==
    Succeeded =>
        \A p \in result.data :
            pinned(block_of(p.block_id)) =>
                p.slot_id = fixed_slot_of(block_of(p.block_id), subjects)

C7_Witness ==
    /\ Succeeded
    /\ Cardinality({p \in result.data : pinned(block_of(p.block_id))}) >= 2
    /\ periods >= 2

Terminal == pc \in {"returned", "raised"}

empty_domain(b) == Domain(b, rooms, teachers, subjects) = {}

Diagnosed ==
    /\ pc = "returned"
    /\ result.status = "failure"
    /\ result.error.kind \in {"FORCED", "BLOCKED"}

\* C8: solve aborts with a per-block diagnostic failure, the solver never
\* invoked, if and only if some block has an empty domain; the reason is the
\* FORCED variant when that block's subject is pinned and the BLOCKED variant
\* otherwise.  Stated for snapshots with at least one room, the no-room
\* message of lines 59-61 being the subject of C12.
C8_PreDiagnosis ==
    (Terminal /\ DOMAIN rooms # {}) =>
        /\ (\E i \in BlockIndex : empty_domain(blocks[i]))
               <=> (Diagnosed /\ solver_calls = 0)
        /\ Diagnosed =>
               /\ empty_domain(blocks[FirstStop])
               /\ result.error.kind =
                      IF pinned(blocks[FirstStop]) THEN "FORCED" ELSE "BLOCKED"

overlap(i, j, f) ==
    occupied_slots(f[i][2], blocks[i].duration)
        \cap occupied_slots(f[j][2], blocks[j].duration) # {}

\* a choice of one admitted (room, start_slot) per block with room, teacher
\* and cohort exclusivity
JointChoice ==
    \E f \in [BlockIndex -> allowed_rooms(rooms) \X slots] :
        /\ \A i \in BlockIndex : f[i] \in Domain(blocks[i], rooms, teachers, subjects)
        /\ \A i, j \in BlockIndex :
               (i < j /\ overlap(i, j, f)) =>
                   /\ f[i][1] # f[j][1]
                   /\ blocks[i].teacher_id # blocks[j].teacher_id
                   /\ blocks[i].year_id # blocks[j].year_id

\* C9: when every block has a non-empty domain, solve returns success if and
\* only if such a joint choice exists, and the generic conflict failure
\* otherwise.
C9_SuccessIffFeasible ==
    (Terminal /\ \A i \in BlockIndex : ~empty_domain(blocks[i])) =>
        /\ pc = "returned"
        /\ (result.status = "success") <=> JointChoice
        /\ ~JointChoice =>
               (result.status = "failure" /\ result.error.kind = "CONFLICT")

\* C10: solve always ends by returning a structured value; no exception
\* leaves it, unresolved teacher_id or subject_id included.
C10_NoException == pc # "raised"

lacks(key) == key \notin DOMAIN config

\* C12 (as claimed): with no rooms, or with a config that lacks days or
\* periods_per_day, solve returns a configuration failure and the solver is
\* never invoked, whatever the block list.
C12_ConfigurationError ==
    (Terminal /\ (DOMAIN rooms = {} \/ lacks("days") \/ lacks("periods_per_day")))
        => /\ pc = "returned"
           /\ result.status = "failure"
           /\ result.error.kind \in {"NO_ROOMS", "CONFIG"}
           /\ solver_calls = 0

\* C12 (amended): with no rooms and at least one block solve returns the
\* no-rooms failure and the solver is never invoked; with an empty block list
\* it invokes the solver and returns a success without placements; a config
\* that lacks days or periods_per_day is no error, the grid is then
\* Mon..Fri and 8 periods.
C12_NoRoomsOrDefaults ==
    /\ (Terminal /\ DOMAIN rooms = {} /\ blocks # <<>>)
           => /\ pc = "returned"
              /\ result = [status |-> "failure", error |-> NoRoomsError,
                           data |-> {}]
              /\ solver_calls = 0
    /\ (Terminal /\ blocks = <<>>)
           => /\ Succeeded
              /\ result.data = {}
              /\ solver_calls = 1
    /\ (Terminal /\ result.status = "failure")
           => result.error.kind \in {"NO_ROOMS", "FORCED", "BLOCKED", "CONFLICT"}
    /\ (pc = "modelled" /\ blocks # <<>>)
           => /\ lacks("days") =>
                     {v[3][1] : v \in x} = {DefaultDays[i] : i \in 1..5}
              /\ lacks("periods_per_day") =>
                     \E v \in x : v[3][2] + block_of(v[1]).duration - 1 = 8

C12_Witness ==
    /\ Succeeded
    /\ lacks("days")
    /\ lacks("periods_per_day")
    /\ \E p \in result.data : p.slot_id = <<"Fri", 8>>

runs_past_day(b) ==
    /\ pinned(b)
    /\ fixed_slot_of(b, subjects) \in slots
    /\ fixed_slot_of(b, subjects)[2] + b.duration - 1 > periods

\* C13: when a block is pinned to a grid slot from which it would run past
\* the end of the day, solve does not succeed; when that block is the only
\* one and a room exists, the result is the pinned-variant diagnostic, the
\* solver never invoked.
C13_PinnedOverflowDiagnosed ==
    (Terminal /\ \E i \in BlockIndex : runs_past_day(blocks[i])) =>
        /\ ~Succeeded
        /\ (DOMAIN rooms # {} /\ Len(blocks) = 1) =>
               /\ Diagnosed
               /\ result.error.kind = "FORCED"
               /\ solver_calls = 0

off_grid_pin(b) == pinned(b) /\ fixed_slot_of(b, subjects) \notin slots

forced_on(b) ==
    /\ pc = "returned"
    /\ result.status = "failure"
    /\ result.error.kind = "FORCED"
    /\ result.error.fixed_slot = fixed_slot_of(b, subjects)

\* C14 (as claimed): a block whose subject is pinned to a slot that is not
\* in the grid gets no decision variable, has an empty domain, and solve
\* returns the pinned-variant diagnostic naming that fixed_slot.
C14_OffGridPinDiagnosed ==
    \A i \in BlockIndex :
        off_grid_pin(blocks[i]) =>
            /\ empty_domain(blocks[i])
            /\ \A v \in x : v[1] # blocks[i].block_id
            /\ Terminal => forced_on(blocks[i])

\* C14 (amended): such a block gets no decision variable and has an empty
\* domain, and solve never succeeds nor invokes the solver; the result is
\* the pinned-variant diagnostic naming that fixed_slot when a room exists
\* and no earlier block of the list has an empty domain.
C14_OffGridPinFails ==
    \A i \in BlockIndex :
        off_grid_pin(blocks[i]) =>
            /\ empty_domain(blocks[i])
            /\ \A v \in x : v[1] # blocks[i].block_id
            /\ Terminal => (~Succeeded /\ solver_calls = 0)
            /\ (Terminal /\ DOMAIN rooms # {} /\ FirstStop = i)
                   => forced_on(blocks[i])

C14_Witness ==
    /\ pc = "returned"
    /\ result.error.kind = "FORCED"
    /\ result.error.fixed_slot = <<"Sat", 1>>
    /\ \E i \in BlockIndex : off_grid_pin(blocks[i])
split_pinned(a) ==
    /\ a.subject_id \in DOMAIN subjects
    /\ subjects[a.subject_id].fixed_slot # NoSlot
    /\ a.sks > max_block_duration

min(a, b) == IF a <= b THEN a ELSE b

greedy(assign, bs, w, m) ==
    /\ w <= 0 => bs = <<>>
    /\ w >= 1 => Len(bs) = (w + m - 1) \div m
    /\ \A k \in DOMAIN bs :
           /\ bs[k].block_id = <<assign.id, k>>
           /\ bs[k].duration = min(m, w - (k - 1) * m)
           /\ k < Len(bs) => bs[k].duration = m
    /\ w = m => Len(bs) = 1
    /\ w = m + 1 => (Len(bs) = 2 /\ bs[1].duration = m /\ bs[2].duration = 1)

\* C15: the blocks of an assignment of workload w under the cap max_block
\* are numbered 1, 2, ... in list order, the k-th one of duration
\* min(max_block, what remains), so all but the last have duration max_block;
\* an assignment with sks <= 0 yields no block; assignments keep their order.
C15_GreedyRule ==
    pc = "prepared" =>
        /\ \A i \in DOMAIN assigned_classes :
               greedy(assigned_classes[i], blocks_of(assigned_classes[i]),
                      assigned_classes[i].sks, max_block_duration)
        /\ \A j, k \in DOMAIN blocks :
               j < k => blocks[j].block_id[1] <= blocks[k].block_id[1]
        /\ \A k \in DOMAIN blocks :
               \E i \in DOMAIN assigned_classes :
                   blocks[k].block_id[1] = assigned_classes[i].id

C15_Witness ==
    /\ pc = "prepared"
    /\ max_block_duration >= 2
    /\ Len(assigned_classes) = 2
    /\ assigned_classes[1].sks <= 0
    /\ assigned_classes[2].sks = max_block_duration + 1
    /\ Len(blocks) = 2
    /\ blocks[2].block_id = <<2, 2>>
without_room_slots(rms) == [r \in DOMAIN rms |-> [unavailable_slots |-> {}]]

\* C17: the rooms' unavailable_slots do not enter solve: every block's
\* admitted (room, start) pairs, the decision variables and the diagnosis
\* are those of the snapshot with all rooms' unavailable_slots emptied, and
\* the overlap constraints read the rooms' ids only.
C17_RoomSlotsIgnored ==
    /\ \A i \in BlockIndex :
           Domain(blocks[i], rooms, teachers, subjects)
               = Domain(blocks[i], without_room_slots(rooms), teachers, subjects)
    /\ pc = "modelled" =>
           x = UNION {{<<blocks[i].block_id, rs[1], rs[2]>> :
                         rs \in Domain(blocks[i], without_room_slots(rooms),
                                       teachers, subjects)} : i \in BlockIndex}
    /\ (pc = "returned" /\ result.status = "failure" /\ solver_calls = 0
            /\ DOMAIN rooms # {})
           => \E i \in BlockIndex :
                  Domain(blocks[i], without_room_slots(rooms), teachers, subjects) = {}

C17_Witness ==
    /\ Succeeded
    /\ \E p \in result.data :
           occ_of(p) \cap rooms[p.room_id].unavailable_slots # {}
\* C11: a request whose solve fails leaves generated_schedule as it was, and
\* a request whose solve succeeds leaves it holding exactly the new
\* placements and no document of an earlier schedule; no other step of a
\* request writes to it.
C11_StoreReplacedOrKept ==
    [][IF pc = "returned" /\ result.status = "success"
       THEN generated_schedule' = [stale |-> 0, current |-> result.data]
       ELSE generated_schedule' = generated_schedule]_vars

grid_records(collection) ==
    \A d \in DOMAIN collection : collection[d].unavailable_slots \subseteq slots

\* C16: whatever commands were executed, the unavailable_slots of every
\* teacher, room and subject hold slot ids of the configured grid only.
C16_UnavailableWithinGrid ==
    /\ grid_records(teachers)
    /\ grid_records(rooms)
    /\ grid_records(subjects)
====
